---- MODULE Spec2Model ----
(***************************************************************************)
(* Oraq: ordered redis asynchronous queue (src/index.js) and its per-job   *)
(* Coordinator (src/Coordinator.js).                                       *)
(*                                                                         *)
(* The store is one Redis server: every command, and every MULTI, runs    *)
(* atomically.  A command runs when the client issues it; the issuing     *)
(* async function resumes in a later step (its await).  Each step of the  *)
(* model is one macrotask of a Node process together with the microtasks  *)
(* it queues: from the arrival of a store reply, a timer or a keyspace    *)
(* message up to the next await on the store.                             *)
(*                                                                         *)
(* Durations are not counted, only the order of what they bring about:    *)
(* setTimeout(f, ping) is a timer that fires at some later step; at some   *)
(* step after _startTime was set more than timeout has elapsed; a lock     *)
(* that is not refreshed expires at some later step, the pending lock      *)
(* (ttl 1.5 * timeout) after its owner's timeout has elapsed.              *)
(***************************************************************************)
EXTENDS Integers, Sequences, FiniteSets, Bags, TLC

\* job ids of the limit() calls, one call per id
Jobs == {"a", "b"}
\* Oraq instances (processes) sharing prefix and id
Workers == {1, 2}
\* lindex / brpoplpush reply on an empty list
Nil == "nil"

\* option concurrency of new Oraq()
Concurrency == 1
\* the mode option limit() passes to new Coordinator(): none
Mode == "undefined"

\* wait() invocations, wait timers and expired-handler round trips a
\* coordinator may have outstanding at once
MaxInv == 1
\* keyspace messages in flight to one subscriber
MaxEvents == 1
\* departures from the plain run that one behaviour may hold: a lifo submit,
\* a job body that throws, a removeJobById call, a killed process, a
\* lock a live owner let expire, a lost keyspace message
MaxUnusual == 1
\* length of the lists of a store state taken by itself
MaxLen == 3

\* no function is applied by itself
NoCall == [fn |-> "none"]

VARIABLES
  pending,          \* list P:pending, head first
  processing,       \* list P:processing, head first
  pendingLock,      \* P:pending:<id>:lock  -> the key exists
  processingLock,   \* P:processing:<id>:lock -> the key exists
  events,           \* per worker: keyspace messages not yet delivered
  worker,           \* the Oraq instance each limit() call runs in
  alive,            \* per worker: the process is running
  pc,               \* per job: where its limit() call stands
  listener,         \* per job: onKeyEvent is registered on the subscriber
  canRun,           \* per job: the canRun promise is fulfilled
  waited,           \* per job: "null" while _startTime is null, then whether
                    \* Date.now() - _startTime is "within" or "over" timeout
  waitInv,          \* per job: bag of wait() invocations awaiting a store reply
  waitTimers,       \* per job: number of armed setTimeout(wait) timers
  waitTimeout,      \* per job: _waitTimeout refers to an armed timer
  keepInv,          \* per job: a keepAlive() invocation awaits its setex reply
  keepAliveTimeout, \* per job: _keepAliveTimeout refers to an armed timer
  expInv,           \* per job: lrem round trips of the expired handler in flight
  outcome,          \* per job: how the job body ended
  popped,           \* per job: the reply of its brpoplpush
  releasedBy,       \* per job: which branch of _setCanRun fulfilled canRun
  lateAssess,       \* per job: _setCanRun ran with more than timeout elapsed
  inserted,         \* ids in the order they were pushed to pending
  completed,        \* ids in the order their job bodies ended
  lifoUsed,         \* some limit() call used lifo
  busy,             \* some timeout elapsed while a job body was executing
  unusual,          \* departures from the plain run so far
  call              \* a function applied by itself: its arguments, its result

vars == <<pending, processing, pendingLock, processingLock, events, worker,
          alive, pc, listener, canRun, waited, waitInv, waitTimers,
          waitTimeout, keepInv, keepAliveTimeout, expInv, outcome, popped,
          releasedBy, lateAssess, inserted, completed, lifoUsed, busy,
          unusual, call>>

\* the current state as one record, so that a handler is a function on states
St ==
  [pending |-> pending, processing |-> processing,
   pendingLock |-> pendingLock, processingLock |-> processingLock,
   events |-> events, worker |-> worker, alive |-> alive, pc |-> pc,
   listener |-> listener, canRun |-> canRun, waited |-> waited,
   waitInv |-> waitInv, waitTimers |-> waitTimers,
   waitTimeout |-> waitTimeout, keepInv |-> keepInv,
   keepAliveTimeout |-> keepAliveTimeout, expInv |-> expInv,
   outcome |-> outcome, popped |-> popped, releasedBy |-> releasedBy,
   lateAssess |-> lateAssess, inserted |-> inserted,
   completed |-> completed, lifoUsed |-> lifoUsed, busy |-> busy,
   unusual |-> unusual]

\* the queue of the next state is the record t
QueueBecomes(t) ==
  /\ pending' = t.pending
  /\ processing' = t.processing
  /\ pendingLock' = t.pendingLock
  /\ processingLock' = t.processingLock
  /\ events' = t.events
  /\ worker' = t.worker
  /\ alive' = t.alive
  /\ pc' = t.pc
  /\ listener' = t.listener
  /\ canRun' = t.canRun
  /\ waited' = t.waited
  /\ waitInv' = t.waitInv
  /\ waitTimers' = t.waitTimers
  /\ waitTimeout' = t.waitTimeout
  /\ keepInv' = t.keepInv
  /\ keepAliveTimeout' = t.keepAliveTimeout
  /\ expInv' = t.expInv
  /\ outcome' = t.outcome
  /\ popped' = t.popped
  /\ releasedBy' = t.releasedBy
  /\ lateAssess' = t.lateAssess
  /\ inserted' = t.inserted
  /\ completed' = t.completed
  /\ lifoUsed' = t.lifoUsed
  /\ busy' = t.busy
  /\ unusual' = t.unusual

\* the next state is the record t
Becomes(t) == QueueBecomes(t) /\ call' = call

(***************************************************************************)
(* Redis lists and keys                                                    *)
(***************************************************************************)
Contains(list, v) == \E i \in 1..Len(list) : list[i] = v

Last(list) == IF list = <<>> THEN Nil ELSE list[Len(list)]

Front(list) == SubSeq(list, 1, Len(list) - 1)

\* a removal that pops the head of the list whatever it is
LRemHead(list, count, v) == IF list = <<>> THEN list ELSE Tail(list)

\* LREM key count v: count = 0 removes every v, count = 1 the first from the head
LRem(list, count, v) ==
  IF ~Contains(list, v) THEN list
  ELSE IF count = 0 THEN SelectSeq(list, LAMBDA x : x # v)
  ELSE LET i == CHOOSE k \in 1..Len(list) :
                  list[k] = v /\ \A m \in 1..(k - 1) : list[m] # v
       IN SubSeq(list, 1, i - 1) \o SubSeq(list, i + 1, Len(list))

\* LPUSH / RPUSH
Push(list, lifo, v) == IF lifo THEN Append(list, v) ELSE <<v>> \o list

\* a transition that pushes the tail of src to dst without popping it
BRPopLPushSrcKept(src) == src

\* BRPOPLPUSH src dst inside MULTI: what is left of src, and the new dst
BRPopLPushSrc(src) == IF src = <<>> THEN src ELSE Front(src)

BRPopLPushDst(src, dst) == IF src = <<>> THEN dst ELSE <<Last(src)>> \o dst

List(s, q) == IF q = "pending" THEN s.pending ELSE s.processing

\* exists(q:id:lock)
Exists(s, q, id) ==
  IF q = "pending" THEN s.pendingLock[id] ELSE s.processingLock[id]

(***************************************************************************)
(* Keyspace notifications (notify-keyspace-events Kgxl)                    *)
(***************************************************************************)
\* the channel of list key q, and of the lock key of id in queue q
ListKey(q) == [q |-> q, id |-> Nil, lock |-> FALSE]

LockKey(q, id) == [q |-> q, id |-> id, lock |-> TRUE]

\* what the listener returned by _getOnKeyEvent does with message on channel:
\* lrem of the expired id then wait(), wait() alone, or nothing
OnKeyEventKind(channel, message) ==
  IF message = "expired" /\ channel.lock THEN <<"lrem", channel.q, channel.id>>
  ELSE IF message \in {"rpop", "lrem"} THEN <<"wait">>
  ELSE <<"ignore">>

\* a listener of worker w is registered, or is about to be
Listening(s, w) ==
  \E j \in Jobs : /\ s.worker[j] = w
                  /\ s.listener[j] \/ s.pc[j] = "enqueue"

\* the server publishes message on channel to every subscriber.  A message
\* travels as what the listeners will do with it; one they ignore is dropped
\* here, one beyond MaxEvents is lost.
Emit(s, channel, message) ==
  IF OnKeyEventKind(channel, message) = <<"ignore">> THEN s
  ELSE [s EXCEPT !.events =
          [w \in Workers |->
             IF s.alive[w] /\ Listening(s, w) /\ Len(s.events[w]) < MaxEvents
             THEN Append(s.events[w], OnKeyEventKind(channel, message))
             ELSE s.events[w]]]

\* LREM on list q, with the lrem message Redis publishes when it removed v
DoLRem(s, q, count, v) ==
  LET s1 == IF q = "pending"
            THEN [s EXCEPT !.pending = LRem(s.pending, count, v)]
            ELSE [s EXCEPT !.processing = LRem(s.processing, count, v)]
  IN IF Contains(List(s, q), v) THEN Emit(s1, ListKey(q), "lrem") ELSE s1

RECURSIVE DoLRemAll(_, _, _)
\* the MULTI of _removeStuckJobs: lrem(q, 0, id) for every stuck id
DoLRemAll(s, q, ids) ==
  IF ids = {} THEN s
  ELSE LET v == CHOOSE x \in ids : TRUE
       IN DoLRemAll(DoLRem(s, q, 0, v), q, ids \ {v})

(***************************************************************************)
(* Coordinator                                                             *)
(***************************************************************************)
\* stopWait()
StopWait(s, j) ==
  IF s.waitTimeout[j]
  THEN [s EXCEPT !.waitTimeout[j] = FALSE, !.waitTimers[j] = @ - 1]
  ELSE s

\* a wait() that arms no timer
ArmWaitNever(s, j) == s

\* this._waitTimeout = setTimeout(() => this.wait(ms), ms)
ArmWait(s, j) ==
  [s EXCEPT !.waitTimeout[j] = TRUE, !.waitTimers[j] = @ + 1]

\* stopKeepAlive()
StopKeepAlive(s, j) == [s EXCEPT !.keepAliveTimeout[j] = FALSE]

\* keepAlive(ms) up to its await: stopKeepAlive(), then setex of the lock
KeepAliveCall(s, j) ==
  [StopKeepAlive(s, j) EXCEPT !.processingLock[j] = TRUE,
                              !.keepInv[j] = TRUE]

\* a timeout test that never succeeds
TimedOutNever(w) == FALSE

\* Date.now() - this._startTime > this._timeout
TimedOut(w) == w = "over"

\* a switch that resolves whatever the mode and whatever the tail
ModeAdmitsAll(mode, nextJobId, jobId) == TRUE

\* the switch on this._mode once processingCount < concurrency
ModeAdmits(mode, nextJobId, jobId) ==
  CASE mode = "limiter" -> TRUE
    [] mode = "queue" -> nextJobId = jobId
    [] OTHER -> FALSE

\* this._resolve()
Resolve(s, j, why) ==
  IF s.canRun[j] THEN s
  ELSE [s EXCEPT !.canRun[j] = TRUE, !.releasedBy[j] = why]

\* limit() after "await coordinator.canRun": removeListener, stopWait(),
\* keepAlive(ping) up to its await
AfterCanRun(s, j) ==
  LET s1 == StopWait([s EXCEPT !.listener[j] = FALSE], j)
  IN [KeepAliveCall(s1, j) EXCEPT !.pc[j] = "keepAlive"]

\* the end of one wait() invocation: _setCanRun returned after resolving or
\* not, the timer is armed.  Microtasks run in the order they were queued:
\* a limit() suspended on canRun resumes before wait() arms its timer, a
\* limit() suspended on the first wait() resumes after.
EndWait(s, j, release, why, first) ==
  LET resumes == release /\ ~s.canRun[j] /\ s.pc[j] = "canRun"
      s1 == IF release THEN Resolve(s, j, why) ELSE s
      s2 == IF resumes THEN AfterCanRun(s1, j) ELSE s1
      s3 == ArmWait(s2, j)
  IN IF ~first THEN s3
     ELSE IF s3.canRun[j] THEN AfterCanRun(s3, j)
     ELSE [s3 EXCEPT !.pc[j] = "canRun"]

\* an invocation of wait() awaiting a reply of the store: to the lrange of
\* _removeStuckJobs(q), which returned the ids snap ("sweep"), to its MULTI of
\* lrem ("lrem"), or to the MULTI of llen and lindex ("check")
Inv(ph, q, snap, rel, first) ==
  [ph |-> ph, q |-> q, snap |-> snap, rel |-> rel, first |-> first]

AddInv(s, j, r) == [s EXCEPT !.waitInv[j] = @ (+) SetToBag({r})]

Ids(list) == {list[i] : i \in 1..Len(list)}

\* _removeStuckJobs(q) up to its first await: the lrange
SweepCall(s, j, q, first) ==
  AddInv(s, j, Inv("sweep", q, Ids(List(s, q)), FALSE, first))

\* wait(ms) up to its first await: stopWait(), then _setCanRun() up to the
\* lrange of _removeStuckJobs(keyPending)
WaitCall(s, j, first) ==
  LET s1 == StopWait(s, j)
      s2 == IF s1.waited[j] = "null" THEN [s1 EXCEPT !.waited[j] = "within"]
            ELSE s1
      s3 == IF s2.waited[j] = "over" THEN [s2 EXCEPT !.lateAssess[j] = TRUE]
            ELSE s2
  IN IF TimedOut(s3.waited[j])
     THEN EndWait(s3, j, TRUE, "timeout", first)
     ELSE SweepCall(s3, j, "pending", first)

\* _removeStuckJobs(q) returned: sweep processing next, or read llen and
\* lindex in one MULTI
NextQueue(s, j, r) ==
  IF r.q = "pending" THEN SweepCall(s, j, "processing", r.first)
  ELSE AddInv(s, j,
         Inv("check", "processing", {},
             /\ Len(s.processing) < Concurrency
             /\ ModeAdmits(Mode, Last(s.pending), j),
             r.first))

\* the ids of snap whose lock key does not exist
Stuck(s, q, snap) == {id \in snap : ~Exists(s, q, id)}

\* the reply to invocation r of wait() arrives.  The exists() calls of one
\* sweep are answered in the step that answers its lrange.
WaitReply(s, j, r) ==
  LET s0 == [s EXCEPT !.waitInv[j] = @ (-) SetToBag({r})]
  IN CASE r.ph = "sweep" ->
            IF Stuck(s0, r.q, r.snap) = {} THEN NextQueue(s0, j, r)
            ELSE AddInv(DoLRemAll(s0, r.q, Stuck(s0, r.q, r.snap)), j,
                        Inv("lrem", r.q, {}, FALSE, r.first))
       [] r.ph = "lrem" -> NextQueue(s0, j, r)
       [] OTHER -> EndWait(s0, j, r.rel, "check", r.first)

(***************************************************************************)
(* Oraq.limit                                                              *)
(***************************************************************************)
Live(j) == alive[worker[j]]

\* the timeout option of the instance: that of new Oraq({timeout}), or the
\* default of two hours
DefaultTimeout == 7200000

TimeoutOption == IF call.fn = "Oraq" THEN call.timeout ELSE DefaultTimeout

\* this._timeout * 1.5 / 1000, the seconds handed to setex, as a fraction
PendingTtl(timeout) == [num |-> timeout * 3, den |-> 2000]

\* setex takes a positive whole number of seconds and fails on anything
\* else; the other commands of its MULTI run all the same
SetexAccepts(seconds) == seconds.num % seconds.den = 0 /\ seconds.num > 0

\* limit(job, {jobId: j, lifo}) up to its first await on the store: the MULTI
\* that sets the pending lock and pushes the id
Limit(j, lifo) ==
  /\ pc[j] = "idle"
  /\ Live(j)
  /\ lifo => unusual < MaxUnusual
  /\ Becomes(Emit([St EXCEPT !.pendingLock[j] =
                               SetexAccepts(PendingTtl(TimeoutOption)),
                             !.pending = Push(@, lifo, j),
                             !.inserted = Append(@, j),
                             !.lifoUsed = @ \/ lifo,
                             !.unusual = IF lifo THEN @ + 1 ELSE @,
                             !.pc[j] = "enqueue"],
                  ListKey("pending"), IF lifo THEN "rpush" ELSE "lpush"))

\* the enqueue MULTI replied: addListener, then coordinator.wait(ping)
EnqueueReply(j) ==
  /\ pc[j] = "enqueue"
  /\ Live(j)
  /\ Becomes(WaitCall([St EXCEPT !.listener[j] = TRUE, !.pc[j] = "wait"],
                      j, TRUE))

\* a store reply resumes an invocation of wait()
WaitStep(j) ==
  /\ Live(j)
  /\ \E r \in BagToSet(waitInv[j]) : Becomes(WaitReply(St, j, r))

\* a wait timer fires and calls wait(ms): the one _waitTimeout refers to, or
\* one armed earlier whose handle was overwritten
WaitTimer(j) ==
  /\ Live(j)
  /\ \E referred \in BOOLEAN :
       /\ IF referred THEN waitTimeout[j]
          ELSE waitTimers[j] > (IF waitTimeout[j] THEN 1 ELSE 0)
       /\ Becomes(WaitCall([St EXCEPT
                              !.waitTimeout[j] = IF referred THEN FALSE ELSE @,
                              !.waitTimers[j] = @ - 1], j, FALSE))

\* the MULTI that moves the tail of pending to processing and deletes the
\* pending lock of j
Move(s, j) ==
  Emit([s EXCEPT !.popped[j] = Last(s.pending),
                 !.pending = BRPopLPushSrc(s.pending),
                 !.processing = BRPopLPushDst(s.pending, s.processing),
                 !.pendingLock[j] = FALSE,
                 !.pc[j] = "move"],
       ListKey("pending"), IF s.pending = <<>> THEN "none" ELSE "rpop")

\* the setex of keepAlive() replied (or failed, which is swallowed): the
\* timer is armed; a limit() awaiting keepAlive goes on to the move
KeepAliveReply(j) ==
  /\ keepInv[j]
  /\ Live(j)
  /\ LET s1 == [St EXCEPT !.keepInv[j] = FALSE, !.keepAliveTimeout[j] = TRUE]
     IN Becomes(IF pc[j] = "keepAlive" THEN Move(s1, j) ELSE s1)

\* the keep-alive timer fires and calls keepAlive(ms)
KeepAliveTimer(j) ==
  /\ keepAliveTimeout[j]
  /\ Live(j)
  /\ Becomes(KeepAliveCall(St, j))

\* the move replied: job(jobData) is called
MoveReply(j) ==
  /\ pc[j] = "move"
  /\ Live(j)
  /\ Becomes([St EXCEPT !.pc[j] = "job"])

\* a finally block that stops the timers and the listener but leaves the store
FinallyLeavesStore(s, j) ==
  [StopWait(StopKeepAlive(s, j), j) EXCEPT !.listener[j] = FALSE,
                                           !.pc[j] = "done"]

\* the finally block: both timers stopped, the listener removed, the MULTI
\* of lrem and del issued.  limit() returns or throws when the MULTI has
\* replied; the store ran it when it was issued, so the reply changes
\* nothing and is not a step of its own.
Finally(s, j) ==
  LET s1 == StopWait(StopKeepAlive(s, j), j)
      s2 == DoLRem([s1 EXCEPT !.listener[j] = FALSE], "processing", 1, j)
  IN [s2 EXCEPT !.processingLock[j] = FALSE, !.pc[j] = "done"]

\* the job body ends with a value or an error, and limit() with it
JobEnd(j, how) ==
  /\ pc[j] = "job"
  /\ Live(j)
  /\ how = "error" => unusual < MaxUnusual
  /\ Becomes(Finally([St EXCEPT !.outcome[j] = how,
                                !.completed = Append(@, j),
                                !.unusual = IF how = "error" THEN @ + 1 ELSE @],
                     j))

\* a removal that also stops the timer of the waiting call and its listener
RemoveJobByIdCancels(s, id) ==
  StopWait(DoLRem([s EXCEPT !.pendingLock[id] = FALSE,
                            !.listener[id] = FALSE], "pending", 1, id), id)

\* the MULTI of removeJobById(id): del of the pending lock, lrem(pending, 1, id)
RemoveJobByIdCall(s, id) ==
  DoLRem([s EXCEPT !.pendingLock[id] = FALSE], "pending", 1, id)

\* removeJobById(id), from any running instance
RemoveJobById(id) ==
  /\ \E w \in Workers : alive[w]
  /\ unusual < MaxUnusual
  /\ Becomes([RemoveJobByIdCall(St, id) EXCEPT !.unusual = @ + 1])

(***************************************************************************)
(* Keyspace messages reaching the listeners                                *)
(***************************************************************************)
\* what a coordinator has outstanding once a new wait() has stopped the timer
Outstanding(s, j) ==
  BagCardinality(s.waitInv[j]) + s.expInv[j] + s.waitTimers[j]
    - (IF s.waitTimeout[j] THEN 1 ELSE 0)

\* the listener of j gets a message: ev is what it does with it
OnKeyEvent(s, j, ev) ==
  IF ~s.listener[j] \/ Outstanding(s, j) >= MaxInv THEN s
  ELSE IF ev[1] = "lrem"
  THEN [DoLRem(s, ev[2], 1, ev[3]) EXCEPT !.expInv[j] = @ + 1]
  ELSE WaitCall(s, j, FALSE)

RECURSIVE OnKeyEventAll(_, _, _)
\* the subscriber emits pmessage: every listener registered on it runs
OnKeyEventAll(s, js, ev) ==
  IF js = {} THEN s
  ELSE LET j == CHOOSE x \in js : TRUE
       IN OnKeyEventAll(OnKeyEvent(s, j, ev), js \ {j}, ev)

\* a keyspace message arrives at the subscriber of worker w
Deliver(w) ==
  /\ alive[w]
  /\ events[w] # <<>>
  /\ Becomes(OnKeyEventAll([St EXCEPT !.events[w] = Tail(@)],
                           {j \in Jobs : worker[j] = w}, Head(events[w])))

\* a keyspace message is lost on its way
LoseEvent(w) ==
  /\ events[w] # <<>>
  /\ unusual < MaxUnusual
  /\ events' = [events EXCEPT ![w] = Tail(@)]
  /\ unusual' = unusual + 1
  /\ UNCHANGED <<pending, processing, pendingLock, processingLock, worker,
                 alive, pc, listener, canRun, waited, waitInv, waitTimers,
                 waitTimeout, keepInv, keepAliveTimeout, expInv, outcome,
                 popped, releasedBy, lateAssess, inserted, completed,
                 lifoUsed, busy, call>>

\* the lrem of the expired handler replied: then(() => coordinator.wait(ping))
ExpiredReply(j) ==
  /\ expInv[j] > 0
  /\ Live(j)
  /\ Becomes(WaitCall([St EXCEPT !.expInv[j] = @ - 1], j, FALSE))

(***************************************************************************)
(* Time and failure                                                        *)
(***************************************************************************)
\* more than timeout has now elapsed since the _startTime of j
TimeoutElapses(j) ==
  /\ waited[j] = "within"
  /\ Becomes([St EXCEPT !.waited[j] = "over",
                        !.busy = @ \/ \E k \in Jobs : pc[k] = "job"])

\* the lock of id in queue q expires.  An owner that runs refreshes its
\* processing lock every ping and leaves its pending lock behind well before
\* 1.5 * timeout, unless it is late.
Expire(q, id) ==
  LET late == pc[id] # "dead"
      s1 == IF q = "pending" THEN [St EXCEPT !.pendingLock[id] = FALSE]
            ELSE [St EXCEPT !.processingLock[id] = FALSE]
  IN /\ Exists(St, q, id)
     /\ q = "pending" => waited[id] = "over" \/ pc[id] = "dead"
     /\ late => unusual < MaxUnusual
     /\ Becomes(Emit([s1 EXCEPT !.unusual = IF late THEN @ + 1 ELSE @],
                     LockKey(q, id), "expired"))

\* the process of worker w is killed: its calls, timers and listeners are gone
Die(w) ==
  /\ alive[w]
  /\ \E j \in Jobs : worker[j] = w /\ pc[j] \notin {"idle", "done"}
  /\ unusual < MaxUnusual
  /\ LET mine(j) == worker[j] = w
     IN Becomes([St EXCEPT
          !.alive[w] = FALSE,
          !.unusual = @ + 1,
          !.events[w] = <<>>,
          !.pc = [j \in Jobs |-> IF mine(j) /\ @[j] # "done" THEN "dead" ELSE @[j]],
          !.listener = [j \in Jobs |-> IF mine(j) THEN FALSE ELSE @[j]],
          !.waited = [j \in Jobs |-> IF mine(j) THEN "null" ELSE @[j]],
          !.waitInv = [j \in Jobs |-> IF mine(j) THEN EmptyBag ELSE @[j]],
          !.waitTimers = [j \in Jobs |-> IF mine(j) THEN 0 ELSE @[j]],
          !.waitTimeout = [j \in Jobs |-> IF mine(j) THEN FALSE ELSE @[j]],
          !.keepInv = [j \in Jobs |-> IF mine(j) THEN FALSE ELSE @[j]],
          !.keepAliveTimeout = [j \in Jobs |-> IF mine(j) THEN FALSE ELSE @[j]],
          !.expInv = [j \in Jobs |-> IF mine(j) THEN 0 ELSE @[j]]])

Init ==
  /\ pending = <<>>
  /\ processing = <<>>
  /\ pendingLock = [j \in Jobs |-> FALSE]
  /\ processingLock = [j \in Jobs |-> FALSE]
  /\ events = [w \in Workers |-> <<>>]
  /\ worker \in {f \in [Jobs -> Workers] : f["a"] = 1}
  /\ alive = [w \in Workers |-> TRUE]
  /\ pc = [j \in Jobs |-> "idle"]
  /\ listener = [j \in Jobs |-> FALSE]
  /\ canRun = [j \in Jobs |-> FALSE]
  /\ waited = [j \in Jobs |-> "null"]
  /\ waitInv = [j \in Jobs |-> EmptyBag]
  /\ waitTimers = [j \in Jobs |-> 0]
  /\ waitTimeout = [j \in Jobs |-> FALSE]
  /\ keepInv = [j \in Jobs |-> FALSE]
  /\ keepAliveTimeout = [j \in Jobs |-> FALSE]
  /\ expInv = [j \in Jobs |-> 0]
  /\ outcome = [j \in Jobs |-> "none"]
  /\ popped = [j \in Jobs |-> "none"]
  /\ releasedBy = [j \in Jobs |-> "none"]
  /\ lateAssess = [j \in Jobs |-> FALSE]
  /\ inserted = <<>>
  /\ completed = <<>>
  /\ lifoUsed = FALSE
  /\ busy = FALSE
  /\ unusual = 0
  /\ call = NoCall

Next ==
  \/ \E j \in Jobs, lifo \in BOOLEAN : Limit(j, lifo)
  \/ \E j \in Jobs : EnqueueReply(j)
  \/ \E j \in Jobs : WaitStep(j)
  \/ \E j \in Jobs : WaitTimer(j)
  \/ \E j \in Jobs : KeepAliveReply(j)
  \/ \E j \in Jobs : KeepAliveTimer(j)
  \/ \E j \in Jobs : MoveReply(j)
  \/ \E j \in Jobs, how \in {"value", "error"} : JobEnd(j, how)
  \/ \E id \in Jobs : RemoveJobById(id)
  \/ \E w \in Workers : Deliver(w)
  \/ \E w \in Workers : LoseEvent(w)
  \/ \E j \in Jobs : ExpiredReply(j)
  \/ \E w \in Workers : Die(w)
  \/ \E q \in {"pending", "processing"}, id \in Jobs : Expire(q, id)
  \/ \E j \in Jobs : TimeoutElapses(j)

Spec == Init /\ [][Next]_vars

(***************************************************************************)
(* Peer death: the run from the state Spec is in once a, admitted on       *)
(* worker 1, executes its body and worker 1 has been killed, while b has   *)
(* yet to be submitted on worker 2.                                        *)
(***************************************************************************)
PeerInit ==
  /\ pending = <<>>
  /\ processing = <<"a">>
  /\ pendingLock = [j \in Jobs |-> FALSE]
  /\ processingLock = [j \in Jobs |-> j = "a"]
  /\ events = [w \in Workers |-> <<>>]
  /\ worker = [j \in Jobs |-> IF j = "a" THEN 1 ELSE 2]
  /\ alive = [w \in Workers |-> w # 1]
  /\ pc = [j \in Jobs |-> IF j = "a" THEN "dead" ELSE "idle"]
  /\ listener = [j \in Jobs |-> FALSE]
  /\ canRun = [j \in Jobs |-> j = "a"]
  /\ waited = [j \in Jobs |-> "null"]
  /\ waitInv = [j \in Jobs |-> EmptyBag]
  /\ waitTimers = [j \in Jobs |-> 0]
  /\ waitTimeout = [j \in Jobs |-> FALSE]
  /\ keepInv = [j \in Jobs |-> FALSE]
  /\ keepAliveTimeout = [j \in Jobs |-> FALSE]
  /\ expInv = [j \in Jobs |-> 0]
  /\ outcome = [j \in Jobs |-> "none"]
  /\ popped = [j \in Jobs |-> IF j = "a" THEN "a" ELSE "none"]
  /\ releasedBy = [j \in Jobs |-> IF j = "a" THEN "timeout" ELSE "none"]
  /\ lateAssess = [j \in Jobs |-> j = "a"]
  /\ inserted = <<"a">>
  /\ completed = <<>>
  /\ lifoUsed = FALSE
  /\ busy = FALSE
  /\ unusual = MaxUnusual
  /\ call = NoCall

\* the steps of the calls, the store and the clock; no further departure
PeerNext ==
  \/ \E j \in Jobs, lifo \in BOOLEAN : Limit(j, lifo)
  \/ \E j \in Jobs : EnqueueReply(j)
  \/ \E j \in Jobs : WaitStep(j)
  \/ \E j \in Jobs : WaitTimer(j)
  \/ \E j \in Jobs : KeepAliveReply(j)
  \/ \E j \in Jobs : KeepAliveTimer(j)
  \/ \E j \in Jobs : MoveReply(j)
  \/ \E j \in Jobs, how \in {"value", "error"} : JobEnd(j, how)
  \/ \E w \in Workers : Deliver(w)
  \/ \E j \in Jobs : ExpiredReply(j)
  \/ \E q \in {"pending", "processing"}, id \in Jobs : Expire(q, id)
  \/ \E j \in Jobs : TimeoutElapses(j)

\* what the code's scheduling guarantees: a reply of the store arrives, an
\* armed timer fires, a published message is delivered, and the lock of a
\* killed owner, refreshed by nobody, expires.  Nothing makes timeout elapse
\* within any number of pings, nor a job body end.
PeerFairness ==
  /\ \A j \in Jobs :
       /\ WF_vars(EnqueueReply(j))
       /\ WF_vars(WaitStep(j))
       /\ WF_vars(WaitTimer(j))
       /\ WF_vars(KeepAliveReply(j))
       /\ WF_vars(KeepAliveTimer(j))
       /\ WF_vars(MoveReply(j))
       /\ WF_vars(ExpiredReply(j))
  /\ \A w \in Workers : WF_vars(Deliver(w))
  /\ \A q \in {"pending", "processing"}, id \in Jobs :
       WF_vars(pc[id] = "dead" /\ Expire(q, id))

PeerSpec == PeerInit /\ [][PeerNext]_vars /\ PeerFairness

(***************************************************************************)
(* Claims                                                                  *)
(***************************************************************************)
\* the job bodies that are executing
Executing == {j \in Jobs : pc[j] = "job"}

\* the limit() call of j waits for admission
Waiting(j) == pc[j] \in {"wait", "canRun"} /\ ~canRun[j]

\* the Oraq instances that have a limit() call
ActiveWorkers == {worker[j] : j \in Jobs}

NoAdmissionRacing == \A j \in Jobs : pc[j] \notin {"keepAlive", "move"}

\* C2: the processing list never holds more than concurrency + W - 1 ids,
\* W the number of workers sharing the queue, and never more than concurrency
\* ids while no admission is racing.
C2_AdmissionBound ==
  /\ Len(processing) <= Concurrency + Cardinality(ActiveWorkers) - 1
  /\ NoAdmissionRacing => Len(processing) <= Concurrency

\* the position of id in the sequence order
Position(order, id) == CHOOSE i \in 1..Len(order) : order[i] = id

\* C3: with concurrency = 1 and only fifo submits, the job bodies end in the
\* order in which their ids were pushed to pending.
C3_FifoOrder ==
  (Concurrency = 1 /\ ~lifoUsed) =>
    \A m, n \in 1..Len(completed) :
      m < n => Position(inserted, completed[m]) < Position(inserted, completed[n])

\* C4: the transition of the limit() call of job j moves the id j, no other
\* id and not nothing.
C4_MovesOwnId == \A j \in Jobs : popped[j] # "none" => popped[j] = j

\* C5: an assessment that runs with more than timeout elapsed since the
\* first one leaves canRun released, whatever the lists hold: so does the
\* first timer tick after timeout has elapsed.
C5_TimeoutEscape == \A j \in Jobs : lateAssess[j] => canRun[j]

\* C5 witness: a late assessment released a call while the processing list
\* was full.
C5_Witness ==
  \E j \in Jobs : /\ lateAssess[j]
                  /\ releasedBy[j] = "timeout"
                  /\ pc[j] = "keepAlive"
                  /\ Len(processing) >= Concurrency

\* C6: no id is in the pending list and in the processing list at once.
C6_SingleResidency ==
  \A id \in Jobs : ~(Contains(pending, id) /\ Contains(processing, id))

\* C6 witness: a transition has moved an id to processing while another id
\* is in pending.
C6_Witness ==
  \E j \in Jobs : /\ pc[j] = "move"
                  /\ popped[j] \in Jobs
                  /\ Contains(processing, popped[j])
                  /\ pending # <<>>

\* C7: once the limit() call of j has ended, j is in neither list.
C7_NoOrphanIds ==
  \A j \in Jobs :
    pc[j] = "done" => ~Contains(pending, j) /\ ~Contains(processing, j)

\* C8: once the limit() call of j has ended, neither lock key of j exists.
C8_NoOrphanLocks ==
  \A j \in Jobs : pc[j] = "done" => ~pendingLock[j] /\ ~processingLock[j]

\* C9: once the limit() call of j has ended, its coordinator has no wait
\* timer and no keep-alive timer armed and its listener is not registered.
C9_TimersReleased ==
  \A j \in Jobs :
    pc[j] = "done" =>
      waitTimers[j] = 0 /\ ~keepAliveTimeout[j] /\ ~listener[j]

\* C10: when the owner of an id in processing has been killed and a live
\* peer waits at the tail of pending, the peer is admitted, whether or not
\* its timeout ever elapses.
C10_PeerDeathProgress ==
  \A j, k \in Jobs :
    (/\ pc[j] = "dead"
     /\ Contains(processing, j)
     /\ Waiting(k)
     /\ Live(k)
     /\ Last(pending) = k) ~> canRun[k]

Lists == UNION {[1..n -> Jobs] : n \in 0..MaxLen}

StoreInit ==
  /\ pending \in Lists
  /\ processing \in {<<>>, <<"a">>}
  /\ pendingLock \in [Jobs -> BOOLEAN]
  /\ processingLock = [j \in Jobs |-> FALSE]
  /\ events = [w \in Workers |-> <<>>]
  /\ worker = [j \in Jobs |-> 1]
  /\ alive = [w \in Workers |-> TRUE]
  /\ pc = [j \in Jobs |-> "idle"]
  /\ listener = [j \in Jobs |-> FALSE]
  /\ canRun = [j \in Jobs |-> FALSE]
  /\ waited = [j \in Jobs |-> "null"]
  /\ waitInv = [j \in Jobs |-> EmptyBag]
  /\ waitTimers = [j \in Jobs |-> 0]
  /\ waitTimeout = [j \in Jobs |-> FALSE]
  /\ keepInv = [j \in Jobs |-> FALSE]
  /\ keepAliveTimeout = [j \in Jobs |-> FALSE]
  /\ expInv = [j \in Jobs |-> 0]
  /\ outcome = [j \in Jobs |-> "none"]
  /\ popped = [j \in Jobs |-> "none"]
  /\ releasedBy = [j \in Jobs |-> "none"]
  /\ lateAssess = [j \in Jobs |-> FALSE]
  /\ inserted = <<>>
  /\ completed = <<>>
  /\ lifoUsed = FALSE
  /\ busy = FALSE
  /\ unusual = 0
  /\ call = NoCall

StoreNext == \E id \in Jobs : RemoveJobById(id)

StoreSpec == StoreInit /\ [][StoreNext]_vars

\* the keys of the store
Store(s) == <<s.pending, s.processing, s.pendingLock, s.processingLock>>

\* how often id occurs in list
Occurrences(list, id) == Cardinality({i \in 1..Len(list) : list[i] = id})

\* the second of two removeJobById(id) calls in a row changes no key
SecondCallIsNoOp(id) ==
  Store(RemoveJobByIdCall(RemoveJobByIdCall(St, id), id))
    = Store(RemoveJobByIdCall(St, id))

\* C12 as stated: on every store state and for every id, removeJobById(id)
\* called twice leaves the store as calling it once does.
C12_Idempotent == \A id \in Jobs : SecondCallIsNoOp(id)

\* C12 amended: the same on every store state in which the id occurs at most
\* once in pending, as it does while job ids are unique.
C12_IdempotentUniqueIds ==
  \A id \in Jobs : Occurrences(pending, id) <= 1 => SecondCallIsNoOp(id)

\* C12 witness: a removeJobById call has removed an id that was in pending
\* once, with its lock, and a second call on that state is at hand.
C12_Witness ==
  /\ unusual = 1
  /\ \E id \in Jobs : ~Contains(pending, id) /\ ~pendingLock[id]
                      /\ pending # <<>>

(***************************************************************************)
(* new Coordinator(options) by itself                                      *)
(***************************************************************************)
\* what an option may hold, by what typeof, Number.isInteger and ! make of it
Kinds == {"undefined", "string", "integer", "fraction", "object"}

Fields == {"jobId", "keyPending", "keyProcessing", "lock", "concurrency",
           "timeout", "client"}

\* new Coordinator(), or new Coordinator({...})
Options ==
  {[f \in Fields \cup {"present"} |-> IF f = "present" THEN "no" ELSE "undefined"]}
    \cup {o \in [Fields \cup {"present"} -> Kinds \cup {"yes"}] :
            o.present = "yes" /\ \A f \in Fields : o[f] \in Kinds}

\* _validate(options) with two of its checks in the other order
ValidateTimeoutFirst(options) ==
  IF options.present = "no" THEN "options are required"
  ELSE IF options.jobId # "string" THEN "jobId must be a string"
  ELSE IF options.keyPending # "string" THEN "keyPending must be a string"
  ELSE IF options.keyProcessing # "string" THEN "keyProcessing must be a string"
  ELSE IF options.lock # "string" THEN "lock must be a string"
  ELSE IF options.timeout # "integer" THEN "timeout must be an integer"
  ELSE IF options.concurrency # "integer" THEN "concurrency must be an integer"
  ELSE IF options.client = "undefined" THEN "client is required"
  ELSE "none"

\* _validate(options): the message of the error it throws, "none" if it returns
Validate(options) ==
  IF options.present = "no" THEN "options are required"
  ELSE IF options.jobId # "string" THEN "jobId must be a string"
  ELSE IF options.keyPending # "string" THEN "keyPending must be a string"
  ELSE IF options.keyProcessing # "string" THEN "keyProcessing must be a string"
  ELSE IF options.lock # "string" THEN "lock must be a string"
  ELSE IF options.concurrency # "integer" THEN "concurrency must be an integer"
  ELSE IF options.timeout # "integer" THEN "timeout must be an integer"
  ELSE IF options.client = "undefined" THEN "client is required"
  ELSE "none"

\* every variable of the queue, none of which a function applied by itself
\* touches
queue == <<pending, processing, pendingLock, processingLock, events, worker,
           alive, pc, listener, canRun, waited, waitInv, waitTimers,
           waitTimeout, keepInv, keepAliveTimeout, expInv, outcome, popped,
           releasedBy, lateAssess, inserted, completed, lifoUsed, busy,
           unusual>>

\* the queue before any limit() call
Idle ==
  /\ pending = <<>>
  /\ processing = <<>>
  /\ pendingLock = [j \in Jobs |-> FALSE]
  /\ processingLock = [j \in Jobs |-> FALSE]
  /\ events = [w \in Workers |-> <<>>]
  /\ worker = [j \in Jobs |-> 1]
  /\ alive = [w \in Workers |-> TRUE]
  /\ pc = [j \in Jobs |-> "idle"]
  /\ listener = [j \in Jobs |-> FALSE]
  /\ canRun = [j \in Jobs |-> FALSE]
  /\ waited = [j \in Jobs |-> "null"]
  /\ waitInv = [j \in Jobs |-> EmptyBag]
  /\ waitTimers = [j \in Jobs |-> 0]
  /\ waitTimeout = [j \in Jobs |-> FALSE]
  /\ keepInv = [j \in Jobs |-> FALSE]
  /\ keepAliveTimeout = [j \in Jobs |-> FALSE]
  /\ expInv = [j \in Jobs |-> 0]
  /\ outcome = [j \in Jobs |-> "none"]
  /\ popped = [j \in Jobs |-> "none"]
  /\ releasedBy = [j \in Jobs |-> "none"]
  /\ lateAssess = [j \in Jobs |-> FALSE]
  /\ inserted = <<>>
  /\ completed = <<>>
  /\ lifoUsed = FALSE
  /\ busy = FALSE
  /\ unusual = 0

ConstructInit ==
  /\ Idle
  /\ \E o \in Options :
       call = [fn |-> "Coordinator", options |-> o, error |-> "unset",
               created |-> FALSE, released |-> FALSE]

\* new Coordinator(options): _validate throws, or the fields are set and
\* canRun is a promise nothing has resolved
Construct ==
  /\ call.fn = "Coordinator"
  /\ call.error = "unset"
  /\ call' = [call EXCEPT !.error = Validate(call.options),
                          !.created = Validate(call.options) = "none"]
  /\ UNCHANGED queue

ConstructNext == Construct

ConstructSpec == ConstructInit /\ [][ConstructNext]_vars

\* the checks in the order the validation tests fix
Order == <<"options", "jobId", "keyPending", "keyProcessing", "lock",
           "concurrency", "timeout", "client">>

\* the check of option f fails on o
Fails(o, f) ==
  CASE f = "options" -> o.present = "no"
    [] f \in {"jobId", "keyPending", "keyProcessing", "lock"} ->
         o.present = "no" \/ o[f] # "string"
    [] f \in {"concurrency", "timeout"} ->
         o.present = "no" \/ o[f] # "integer"
    [] OTHER -> o.present = "no" \/ o.client = "undefined"

Message(f) ==
  CASE f = "options" -> "options are required"
    [] f = "client" -> "client is required"
    [] f \in {"concurrency", "timeout"} -> f \o " must be an integer"
    [] OTHER -> f \o " must be a string"

\* the error of the first failing check, "none" if every check passes
FirstFailing(o) ==
  IF \E i \in 1..Len(Order) : Fails(o, Order[i])
  THEN Message(Order[CHOOSE i \in 1..Len(Order) :
                       /\ Fails(o, Order[i])
                       /\ \A k \in 1..(i - 1) : ~Fails(o, Order[k])])
  ELSE "none"

\* C13: new Coordinator(options) throws the error of the first failing check
\* in the fixed order and creates nothing; with every option valid it
\* creates a coordinator whose canRun is not released.
C13_ValidationOrder ==
  (call.fn = "Coordinator" /\ call.error # "unset") =>
    /\ call.error = FirstFailing(call.options)
    /\ call.created = (FirstFailing(call.options) = "none")
    /\ ~call.released

\* C13 witness: a construction threw for its timeout although its client is
\* missing too.
C13_Witness ==
  /\ call.fn = "Coordinator"
  /\ call.error = "timeout must be an integer"
  /\ call.options.client = "undefined"
  /\ ~call.created

\* invocation r of wait() of job j issues its MULTI of llen and lindex in
\* this step
IssuesCheck(j, r) ==
  /\ r.ph = "check"
  /\ CopiesIn(r, waitInv'[j]) > CopiesIn(r, waitInv[j])

\* what the MULTI of llen and lindex reads is eligibility of j
ReadsEligible(j) ==
  /\ Len(processing') < Concurrency
  /\ Last(pending') = j

\* C14: an assessment of a coordinator created by limit() that runs before
\* the timeout has elapsed and reads len(processing) < concurrency and the
\* tail of pending equal to its own job id releases canRun.
C14_EligibleAssessmentReleases ==
  [][\A j \in Jobs : \A r \in BagToSet(waitInv'[j]) :
       (IssuesCheck(j, r) /\ ReadsEligible(j)) => r.rel]_vars

\* the reply to the MULTI of invocation r of wait() of job j arrives in this
\* step
AnswersCheck(j, r) ==
  /\ r.ph = "check"
  /\ CopiesIn(r, waitInv'[j]) < CopiesIn(r, waitInv[j])

\* C15: canRun of a job is released only by an assessment that found the
\* timeout elapsed, or by one whose MULTI read len(processing) < concurrency
\* and the tail of pending equal to the job's id; no other assessment
\* releases it, and once released it stays released.
C15_ReleaseOnlyByTimeoutOrCheck ==
  [][\A j \in Jobs :
       /\ canRun[j] => canRun'[j]
       /\ \A r \in BagToSet(waitInv'[j]) :
            (IssuesCheck(j, r) /\ r.rel) => ReadsEligible(j)
       /\ (~canRun[j] /\ canRun'[j]) =>
            \/ releasedBy'[j] = "timeout" /\ TimedOut(waited[j])
            \/ /\ releasedBy'[j] = "check"
               /\ \E r \in BagToSet(waitInv[j]) : AnswersCheck(j, r) /\ r.rel]_vars

\* C15 witness: a job was released by the timeout escape and ran to its end
\* with canRun still released.
C15_Witness ==
  \E j \in Jobs : canRun[j] /\ releasedBy[j] = "timeout" /\ pc[j] = "done"

\* the limit() call of job k is alive on a live worker: waiting for
\* admission or executing its body
LiveCall(k) ==
  /\ Live(k)
  /\ pc[k] \in {"enqueue", "wait", "canRun", "keepAlive", "move", "job"}

\* this step is a reply inside a stuck-job sweep, or the delivery of a
\* keyspace message to the listeners
SweepOrExpiredHandler ==
  \/ \E j \in Jobs : WaitStep(j)
  \/ \E w \in Workers : Deliver(w)

\* C16: no stuck-job sweep and no lock-expired handler removes from pending
\* or processing the id of a job whose limit() call is alive on a live
\* worker.
C16_NoLiveEviction ==
  [][SweepOrExpiredHandler =>
       \A k \in Jobs : LiveCall(k) =>
         /\ Contains(pending, k) => Contains(pending', k)
         /\ Contains(processing, k) => Contains(processing', k)]_vars

(***************************************************************************)
(* Enqueue under the timeout option of the instance                        *)
(***************************************************************************)
MaxTimeout == 8

\* integer timeouts in milliseconds, every half second up to the bound
Timeouts == {500 * t : t \in 1..MaxTimeout}

\* new Oraq({timeout}) before any limit() call
EnqueueInit ==
  /\ Idle
  /\ \E t \in Timeouts : call = [fn |-> "Oraq", timeout |-> t]

EnqueueNext ==
  \/ \E j \in Jobs, lifo \in BOOLEAN : Limit(j, lifo)
  \/ \E j \in Jobs : EnqueueReply(j)
  \/ \E j \in Jobs : WaitStep(j)

EnqueueSpec == EnqueueInit /\ [][EnqueueNext]_vars

\* C17: at enqueue the pending lock is set and the id is inserted into
\* pending in one atomic step, lock first: no state shows a newly enqueued
\* id in pending while its pending lock has not been created.
C17_LockWithInsert ==
  [][\A j \in Jobs :
       (~Contains(pending, j) /\ Contains(pending', j)) => pendingLock'[j]]_vars

(***************************************************************************)
(* One keyspace message reaching the listeners of two waiting jobs         *)
(***************************************************************************)
\* the events a keyspace message may name
Messages == {"rpop", "lrem", "lpush", "rpush", "brpoplpush", "expired",
             "del", "set", "expire"}

\* the keys under the prefix the subscriber has psubscribed to: the two
\* lists, their lock keys, and a key that is neither
Channels ==
  {ListKey(q) : q \in {"pending", "processing", "other"}}
    \cup {LockKey(q, id) : q \in {"pending", "processing"}, id \in Jobs}

\* the state Spec is in once a and b, submitted in this order on worker 1,
\* have each assessed once within the timeout and armed their timers
KeyEventInit ==
  /\ pending = <<"b", "a">>
  /\ processing = <<>>
  /\ pendingLock = [j \in Jobs |-> TRUE]
  /\ processingLock = [j \in Jobs |-> FALSE]
  /\ events = [w \in Workers |-> <<>>]
  /\ worker = [j \in Jobs |-> 1]
  /\ alive = [w \in Workers |-> TRUE]
  /\ pc = [j \in Jobs |-> "canRun"]
  /\ listener = [j \in Jobs |-> TRUE]
  /\ canRun = [j \in Jobs |-> FALSE]
  /\ waited = [j \in Jobs |-> "within"]
  /\ waitInv = [j \in Jobs |-> EmptyBag]
  /\ waitTimers = [j \in Jobs |-> 1]
  /\ waitTimeout = [j \in Jobs |-> TRUE]
  /\ keepInv = [j \in Jobs |-> FALSE]
  /\ keepAliveTimeout = [j \in Jobs |-> FALSE]
  /\ expInv = [j \in Jobs |-> 0]
  /\ outcome = [j \in Jobs |-> "none"]
  /\ popped = [j \in Jobs |-> "none"]
  /\ releasedBy = [j \in Jobs |-> "none"]
  /\ lateAssess = [j \in Jobs |-> FALSE]
  /\ inserted = <<"a", "b">>
  /\ completed = <<>>
  /\ lifoUsed = FALSE
  /\ busy = FALSE
  /\ unusual = 0
  /\ \E c \in Channels, m \in Messages :
       call = [fn |-> "pmessage", channel |-> c, message |-> m,
               emitted |-> FALSE]

\* the subscriber of worker w emits pmessage(pattern, channel, message):
\* every listener registered on it runs
Pmessage(w) ==
  /\ call.fn = "pmessage"
  /\ ~call.emitted
  /\ alive[w]
  /\ LET ev == OnKeyEventKind(call.channel, call.message)
     IN QueueBecomes(IF ev = <<"ignore">> THEN St
                     ELSE OnKeyEventAll(St, {j \in Jobs : worker[j] = w}, ev))
  /\ call' = [call EXCEPT !.emitted = TRUE]

KeyEventNext == Pmessage(1)

KeyEventSpec == KeyEventInit /\ [][KeyEventNext]_vars

\* the events the specification calls list mutations
ListMutations == {"rpop", "lrem", "lpush", "rpush", "brpoplpush"}

\* the coordinator of j has begun a re-assessment: wait(ping) stopped the
\* timer and is awaiting the store
Reassessing(j) == waitInv[j] # EmptyBag /\ ~waitTimeout[j]

\* C18: a keyspace message whose event is one of rpop, lrem, lpush, rpush,
\* brpoplpush on one of the queue's two list keys makes every locally
\* waiting coordinator re-assess; a message of another event other than a
\* lock expiry, or on a key outside the queue's lists, makes none do so.
C18_ListMutationReassesses ==
  (call.fn = "pmessage" /\ call.emitted) =>
    LET onList == call.channel \in {ListKey("pending"), ListKey("processing")}
        mutation == call.message \in ListMutations
    IN /\ (mutation /\ onList) => \A j \in Jobs : Reassessing(j)
       /\ (call.message # "expired" /\ ~(mutation /\ onList)) =>
            \A j \in Jobs : ~Reassessing(j)

(***************************************************************************)
(* A store operation that fails, in the run from two mid-run states of     *)
(* Spec: b waits with its timer armed while a executes its body on the     *)
(* same worker, or while a lies stuck in processing, its worker killed     *)
(* and its lock expired.                                                   *)
(***************************************************************************)
\* the store operation that fails whenever it is issued on list q
Faults ==
  {[fn |-> "fault", op |-> o, q |-> "pending", rejected |-> FALSE] :
     o \in {"none", "setex"}}
    \cup {[fn |-> "fault", op |-> o, q |-> q, rejected |-> FALSE] :
            o \in {"lrange", "exists", "exec"}, q \in {"pending", "processing"}}

FaultInit ==
  /\ pending = <<"b">>
  /\ processing = <<"a">>
  /\ pendingLock = [j \in Jobs |-> j = "b"]
  /\ events = [w \in Workers |-> <<>>]
  /\ listener = [j \in Jobs |-> j = "b"]
  /\ canRun = [j \in Jobs |-> j = "a"]
  /\ waitInv = [j \in Jobs |-> EmptyBag]
  /\ keepInv = [j \in Jobs |-> FALSE]
  /\ expInv = [j \in Jobs |-> 0]
  /\ outcome = [j \in Jobs |-> "none"]
  /\ popped = [j \in Jobs |-> IF j = "a" THEN "a" ELSE "none"]
  /\ releasedBy = [j \in Jobs |-> IF j = "a" THEN "timeout" ELSE "none"]
  /\ lateAssess = [j \in Jobs |-> j = "a"]
  /\ inserted = <<"a", "b">>
  /\ completed = <<>>
  /\ lifoUsed = FALSE
  /\ busy = FALSE
  /\ \E killed \in BOOLEAN :
       /\ worker = [j \in Jobs |-> IF killed /\ j = "b" THEN 2 ELSE 1]
       /\ alive = [w \in Workers |-> ~(killed /\ w = 1)]
       /\ pc = [j \in Jobs |-> IF j = "b" THEN "canRun"
                               ELSE IF killed THEN "dead" ELSE "job"]
       /\ processingLock = [j \in Jobs |-> ~killed /\ j = "a"]
       /\ waited = [j \in Jobs |-> IF j = "b" THEN "within"
                                   ELSE IF killed THEN "null" ELSE "over"]
       /\ waitTimers = [j \in Jobs |-> IF killed /\ j = "a" THEN 0 ELSE 1]
       /\ waitTimeout = [j \in Jobs |-> ~(killed /\ j = "a")]
       /\ keepAliveTimeout = [j \in Jobs |-> ~killed /\ j = "a"]
       /\ unusual = IF killed THEN 1 ELSE 0
  /\ call \in Faults

\* the reply to invocation r of wait() arrives while operation op fails on
\* list q: a failed lrange or exists rejects _removeStuckJobs, and with it
\* _setCanRun and wait(), before the timer is armed; a failed exec of the
\* removal MULTI is caught, and nothing was removed
FaultyWaitReply(s, j, r, op, q) ==
  LET s0 == [s EXCEPT !.waitInv[j] = @ (-) SetToBag({r})]
      hit(o) == op = o /\ q = r.q
  IN CASE r.ph = "sweep" /\ (hit("lrange") \/ (hit("exists") /\ r.snap # {})) ->
            [s |-> s0, rejected |-> TRUE]
       [] r.ph = "sweep" /\ hit("exec") /\ Stuck(s0, r.q, r.snap) # {} ->
            [s |-> AddInv(s0, j, Inv("lrem", r.q, {}, FALSE, r.first)),
             rejected |-> FALSE]
       [] OTHER -> [s |-> WaitReply(s, j, r), rejected |-> FALSE]

\* a store reply, or a store error, resumes an invocation of wait()
FaultyWaitStep(j) ==
  /\ Live(j)
  /\ call.fn = "fault"
  /\ \E r \in BagToSet(waitInv[j]) :
       LET o == FaultyWaitReply(St, j, r, call.op, call.q)
       IN /\ QueueBecomes(o.s)
          /\ call' = [call EXCEPT !.rejected = @ \/ o.rejected]

\* the keep-alive timer fires and calls keepAlive(ms); a setex that fails
\* leaves the lock as it was
FaultyKeepAliveTimer(j) ==
  /\ keepAliveTimeout[j]
  /\ Live(j)
  /\ call.fn = "fault"
  /\ Becomes(IF call.op = "setex"
             THEN [StopKeepAlive(St, j) EXCEPT !.keepInv[j] = TRUE]
             ELSE KeepAliveCall(St, j))

FaultNext ==
  \/ \E j \in Jobs : WaitTimer(j)
  \/ \E j \in Jobs : FaultyWaitStep(j)
  \/ \E j \in Jobs : FaultyKeepAliveTimer(j)
  \/ \E j \in Jobs : KeepAliveReply(j)
  \/ \E j \in Jobs : TimeoutElapses(j)

FaultSpec == FaultInit /\ [][FaultNext]_vars

\* C19: a store failure during the keep-alive setex or during any store
\* operation of the stuck-job sweep is swallowed: no wait() or keepAlive()
\* fails, and once the invocation is over the re-assessment timer of a
\* waiting job and the keep-alive timer of an executing job are armed.
C19_FailuresSwallowed ==
  call.fn = "fault" =>
    /\ ~call.rejected
    /\ \A j \in Jobs :
         /\ (Live(j) /\ pc[j] = "canRun" /\ waitInv[j] = EmptyBag)
              => waitTimeout[j]
         /\ (Live(j) /\ pc[j] = "job" /\ ~keepInv[j]) => keepAliveTimeout[j]

(***************************************************************************)
(* Every keyspace message lost: the calls of one worker with no delivery   *)
(***************************************************************************)
LostInit == Idle /\ call = NoCall

\* the steps of the calls, the store and the clock; a message the server
\* publishes reaches no listener
LostNext ==
  \/ \E j \in Jobs, lifo \in BOOLEAN : Limit(j, lifo)
  \/ \E j \in Jobs : EnqueueReply(j)
  \/ \E j \in Jobs : WaitStep(j)
  \/ \E j \in Jobs : WaitTimer(j)
  \/ \E j \in Jobs : KeepAliveReply(j)
  \/ \E j \in Jobs : MoveReply(j)
  \/ \E j \in Jobs, how \in {"value", "error"} : JobEnd(j, how)
  \/ \E j \in Jobs : TimeoutElapses(j)

\* what the code's scheduling guarantees: a reply of the store arrives and
\* an armed timer fires; and the clock goes on, so that more than timeout
\* has elapsed at some time.  Nothing makes a job body end.
LostFairness ==
  \A j \in Jobs :
    /\ WF_vars(EnqueueReply(j))
    /\ WF_vars(WaitStep(j))
    /\ WF_vars(WaitTimer(j))
    /\ WF_vars(KeepAliveReply(j))
    /\ WF_vars(MoveReply(j))
    /\ WF_vars(TimeoutElapses(j))

LostSpec == LostInit /\ [][LostNext]_vars /\ LostFairness

\* j is eligible: at the tail of pending with a free slot in processing
Eligible(j) ==
  /\ Waiting(j)
  /\ Last(pending) = j
  /\ Len(processing) < Concurrency

\* a re-assessment timer of j is armed, or an assessment of j is in progress
Reassessed(j) == waitTimers[j] > 0 \/ waitInv[j] # EmptyBag \/ expInv[j] > 0

\* C20: with every keyspace message lost, a waiting job has a re-assessment
\* timer armed or an assessment in progress for as long as canRun is not
\* released, and a job that becomes eligible is eventually released.
C20_PeriodicReassessment ==
  /\ [](\A j \in Jobs : (Waiting(j) /\ ~canRun[j]) => Reassessed(j))
  /\ \A j \in Jobs : Eligible(j) ~> canRun[j]

\* C20 witness: a job that waited at the tail of pending below a free slot,
\* re-assessed by its timer, has just been released.
C20_Witness ==
  \E j \in Jobs :
    /\ pc[j] = "keepAlive"
    /\ canRun[j]
    /\ releasedBy[j] = "timeout"
    /\ Last(pending) = j
    /\ Len(processing) < Concurrency

(***************************************************************************)
(* The seconds handed to setex, under the ping and the timeout options of  *)
(* the instance                                                            *)
(***************************************************************************)
MaxPing == 8

\* integer pings in milliseconds, every quarter second up to the bound
Pings == {250 * p : p \in 1..MaxPing}

\* ms * 2 / 1000, the seconds keepAlive(ms) hands to setex, as a fraction
ProcessingTtl(ms) == [num |-> ms * 2, den |-> 1000]

\* new Oraq({ping, timeout}) before either setex was issued
TtlInit ==
  /\ Idle
  /\ \E t \in Timeouts, p \in Pings :
       call = [fn |-> "setex", timeout |-> t, ping |-> p,
               enqueued |-> FALSE, pending |-> [num |-> 0, den |-> 1],
               refreshed |-> FALSE, processing |-> [num |-> 0, den |-> 1]]

\* the setex of the enqueue MULTI of limit() is issued
EnqueueSetex ==
  /\ call.fn = "setex"
  /\ ~call.enqueued
  /\ call' = [call EXCEPT !.enqueued = TRUE,
                          !.pending = PendingTtl(call.timeout)]
  /\ UNCHANGED queue

\* the setex of keepAlive(ping) is issued
KeepAliveSetex ==
  /\ call.fn = "setex"
  /\ ~call.refreshed
  /\ call' = [call EXCEPT !.refreshed = TRUE,
                          !.processing = ProcessingTtl(call.ping)]
  /\ UNCHANGED queue

TtlNext ==
  \/ EnqueueSetex
  \/ KeepAliveSetex

TtlSpec == TtlInit /\ [][TtlNext]_vars

\* the least integer not below num / den
Ceil(num, den) == (num + den - 1) \div den

\* the fraction ttl is the whole number n
IsWhole(ttl, n) == ttl.num % ttl.den = 0 /\ ttl.num \div ttl.den = n

\* C21: for all integer ping and timeout in milliseconds, the TTL passed to
\* the store is a whole number of seconds: ceil(timeout * 1.5 / 1000) for the
\* pending lock at enqueue, ceil(ping * 2 / 1000) for the processing lock at
\* every refresh.
C21_WholeSecondTtl ==
  call.fn = "setex" =>
    /\ call.enqueued => IsWhole(call.pending, Ceil(call.timeout * 3, 2000))
    /\ call.refreshed => IsWhole(call.processing, Ceil(call.ping * 2, 1000))

(***************************************************************************)
(* removeJobById on a waiting job, in the run from the state Spec is in    *)
(* once a executes its body and b, submitted after it on the same worker,  *)
(* has assessed once and waits with its timer armed                        *)
(***************************************************************************)
RemoveInit ==
  /\ pending = <<"b">>
  /\ processing = <<"a">>
  /\ pendingLock = [j \in Jobs |-> j = "b"]
  /\ processingLock = [j \in Jobs |-> j = "a"]
  /\ events = [w \in Workers |-> <<>>]
  /\ worker = [j \in Jobs |-> 1]
  /\ alive = [w \in Workers |-> TRUE]
  /\ pc = [j \in Jobs |-> IF j = "a" THEN "job" ELSE "canRun"]
  /\ listener = [j \in Jobs |-> j = "b"]
  /\ canRun = [j \in Jobs |-> j = "a"]
  /\ waited = [j \in Jobs |-> IF j = "a" THEN "over" ELSE "within"]
  /\ waitInv = [j \in Jobs |-> EmptyBag]
  /\ waitTimers = [j \in Jobs |-> 1]
  /\ waitTimeout = [j \in Jobs |-> TRUE]
  /\ keepInv = [j \in Jobs |-> FALSE]
  /\ keepAliveTimeout = [j \in Jobs |-> j = "a"]
  /\ expInv = [j \in Jobs |-> 0]
  /\ outcome = [j \in Jobs |-> "none"]
  /\ popped = [j \in Jobs |-> IF j = "a" THEN "a" ELSE "none"]
  /\ releasedBy = [j \in Jobs |-> IF j = "a" THEN "timeout" ELSE "none"]
  /\ lateAssess = [j \in Jobs |-> j = "a"]
  /\ inserted = <<"a", "b">>
  /\ completed = <<>>
  /\ lifoUsed = FALSE
  /\ busy = FALSE
  /\ unusual = 0
  /\ call = NoCall

RemoveNext ==
  \/ \E j \in Jobs : WaitStep(j)
  \/ \E j \in Jobs : WaitTimer(j)
  \/ \E j \in Jobs : KeepAliveReply(j)
  \/ \E j \in Jobs : MoveReply(j)
  \/ \E j \in Jobs : JobEnd(j, "value")
  \/ \E j \in Jobs : TimeoutElapses(j)
  \/ \E w \in Workers : Deliver(w)
  \/ \E id \in Jobs : pc[id] \in {"wait", "canRun"} /\ ~canRun[id]
                        /\ RemoveJobById(id)

\* what the code's scheduling guarantees: a reply of the store arrives, an
\* armed timer fires, a published message is delivered, and the clock goes
\* on.  Nothing makes a job body end.
RemoveFairness ==
  /\ \A j \in Jobs :
       /\ WF_vars(WaitStep(j))
       /\ WF_vars(WaitTimer(j))
       /\ WF_vars(KeepAliveReply(j))
       /\ WF_vars(MoveReply(j))
       /\ WF_vars(TimeoutElapses(j))
  /\ \A w \in Workers : WF_vars(Deliver(w))

RemoveSpec == RemoveInit /\ [][RemoveNext]_vars /\ RemoveFairness

\* removeJobById(j) was called while the limit() call of j waited: the one
\* departure of this run happened, j waits, and neither its id nor its lock
\* is in pending
RemovedWhileWaiting(j) ==
  /\ unusual = 1
  /\ Waiting(j)
  /\ ~Contains(pending, j)
  /\ ~pendingLock[j]

\* C22: removeJobById(X) on a job X whose limit() call is waiting does not
\* cancel the call: X's coordinator keeps re-assessing, and once its wait
\* exceeds timeout canRun is released and the body of X is executed although
\* X is no longer in pending.
C22_RemovalDoesNotCancel ==
  \A j \in Jobs :
    /\ [](RemovedWhileWaiting(j) => Reassessed(j))
    /\ RemovedWhileWaiting(j) ~> (pc[j] = "job" /\ releasedBy[j] = "timeout")

\* C22 witness: the body of a job executes, released by the timeout escape,
\* after its id was removed from pending by removeJobById and moved by
\* nobody.
C22_Witness ==
  \E j \in Jobs :
    /\ unusual = 1
    /\ pc[j] = "job"
    /\ releasedBy[j] = "timeout"
    /\ popped[j] # j
    /\ ~Contains(processing, j)

====
